---- MODULE Spec2Model ----
(***************************************************************************)
(* Model of the mirage-encryption core: the CSFLE schema validator         *)
(* (src/src/utils/schema.utils.ts), the key resolver DekManager.getDEK     *)
(* (src/src/dekManager.ts) and the schema expander EncryptionSchemaService *)
(* (source text carried in src/docs/Testing-Guide.md, lines 279-441), and  *)
(* the service object ServerEncryptionService (src/src/encryption.ts).     *)
(*                                                                         *)
(* JavaScript values are modelled as tagged records so that truthiness,    *)
(* typeof and key order behave as they do in the code:                     *)
(*   [k |-> "undef"]  [k |-> "null"]  [k |-> "str", s |-> ...]             *)
(*   [k |-> "num", n |-> ...]  [k |-> "bool", b |-> ...]                   *)
(*   [k |-> "obj", e |-> << <<key, value>>, ... >>]   (insertion order)    *)
(*   [k |-> "arr", a |-> << value, ... >>]   [k |-> "bin", id |-> ...]      *)
(* Strings are TLA+ strings; template literals are built with \o.          *)
(***************************************************************************)
EXTENDS Naturals, Sequences, FiniteSets, TLC

VARIABLES
    \* ---- validator harness (validateCSFLESchema is a pure function) ----
    focus,          \* the node under test placed somewhere in the schema tree
    ctx,            \* the position (sequence of descent steps) of that node
    schemaObj,      \* argument schemaObj of validateCSFLESchema
    rootLabel,      \* argument collectionName of validateCSFLESchema
    vpc,            \* "ready" before the call, "done" after it
    vResult,        \* outcome of the call
    \* ---- key vault, connection and DekManager ----
    vault,          \* key-vault collection: records [id, altName] in insertion order
    clientOpen,     \* whether DekManager.mongoClient is connected
    kmsType,        \* DekManager.kmsProvider.type
    dek,            \* per caller: the getDEK invocation in progress
    hist,           \* direct getDEK calls: [arg, before, result, after]
    \* ---- EncryptionSchemaService.generateCSFLESchema ----
    schemaFile,     \* the schema file: [exists, json]
    gen,            \* the generateCSFLESchema invocation
    dekCalls,       \* getDEK calls of the invocation, in call order: [path, result]
    \* ---- ServerEncryptionService ----
    svc,            \* the fields of the service object
    svcLog          \* calls made on the service, in call order: [op, arg, result]

vvars == <<focus, ctx, schemaObj, rootLabel, vpc, vResult>>
dvars == <<vault, clientOpen, kmsType, dek, hist>>
gvars == <<schemaFile, gen, dekCalls>>
svars == <<svc, svcLog>>
vars == <<vvars, dvars, gvars, svars>>

-----------------------------------------------------------------------------
(* JavaScript value layer *)

Undef == [k |-> "undef"]
Null == [k |-> "null"]
Str(s) == [k |-> "str", s |-> s]
Num(n) == [k |-> "num", n |-> n]
Bool(b) == [k |-> "bool", b |-> b]
Obj(entries) == [k |-> "obj", e |-> entries]
Arr(elems) == [k |-> "arr", a |-> elems]
Binary(id) == [k |-> "bin", id |-> id]

\* ToBoolean: undefined, null, "", 0 and false are falsy, everything else truthy
Truthy(v) ==
    CASE v.k \in {"obj", "arr", "bin"} -> TRUE
      [] v.k = "str" -> v.s # ""
      [] v.k = "num" -> v.n # 0
      [] v.k = "bool" -> v.b
      [] OTHER -> FALSE

\* variant: every value passes for an object
TypeofObject_any(v) == TRUE

\* typeof v === "object"  (true of null as well)
TypeofObject(v) == v.k \in {"obj", "null", "arr", "bin"}

\* Array.isArray(v)
IsArray(v) == v.k = "arr"

\* the keys of an array are its indices
IndexKey == <<"0", "1", "2", "3">>

\* Object.entries(v): own entries in insertion order; numbers and booleans
\* have none
Entries(v) ==
    CASE v.k = "obj" -> v.e
      [] v.k = "arr" -> [i \in 1..Len(v.a) |-> <<IndexKey[i], v.a[i]>>]
      [] OTHER -> <<>>

\* Object.keys(v)
Keys(v) == [i \in 1..Len(Entries(v)) |-> Entries(v)[i][1]]

Has(o, key) == o.k = "obj" /\ \E i \in 1..Len(o.e) : o.e[i][1] = key

\* property read o.key: undefined when the key is absent
Get(o, key) ==
    IF Has(o, key)
    THEN o.e[CHOOSE i \in 1..Len(o.e) : o.e[i][1] = key][2]
    ELSE Undef

\* `${v}` for the values that occur in messages
ToStr(v) ==
    CASE v.k = "str" -> v.s
      [] v.k = "null" -> "null"
      [] v.k = "undef" -> "undefined"
      [] v.k \in {"obj", "bin"} -> "[object Object]"
      [] v.k = "arr" -> "[array]"
      [] v.k = "bool" -> IF v.b THEN "true" ELSE "false"
      [] OTHER -> "0"

\* outcomes of a call
Ret(v) == [outcome |-> "return", value |-> v]
Throw(err) == [outcome |-> "throw", error |-> err]
Threw(r) == r.outcome = "throw"
Returned(r) == r.outcome = "return"
\* a call that has not settled yet
Pending == [outcome |-> "pending"]

\* an Error object: class name and message; the message is kept as its
\* template id, the interpolated path, the interpolated argument and the
\* interpolated inner message (${error.message}), so that "the message names
\* X" is decidable
NoMsg == [tmpl |-> "none"]
Msg(tmpl, path, arg, cause) == [tmpl |-> tmpl, path |-> path, arg |-> arg, cause |-> cause]
Err(name, msg) == [name |-> name, message |-> msg]

SchemaError(tmpl, path, arg) == Err("SchemaError", Msg(tmpl, path, arg, NoMsg))

-----------------------------------------------------------------------------
(* Enumerations *)

DETERMINISTIC == "AEAD_AES_256_CBC_HMAC_SHA_512-Deterministic"
RANDOM == "AEAD_AES_256_CBC_HMAC_SHA_512-Random"

\* variant: "array" admitted for deterministic encryption
deterministicSupportedTypes_array == <<"string", "int", "long", "date", "objectId", "uuid", "array">>

deterministicSupportedTypes == <<"string", "int", "long", "date", "objectId", "uuid">>

\* variant: "foo" admitted as a node key
allowedKeys_foo == <<"bsonType", "properties", "patternProperties", "encrypt",
                     "encryptMetadata", "description", "title", "required", "foo">>

allowedKeys == <<"bsonType", "properties", "patternProperties", "encrypt",
                 "encryptMetadata", "description", "title", "required">>

Includes(seq, x) == \E i \in 1..Len(seq) : seq[i] = x

-----------------------------------------------------------------------------
(* Schema validator: src/src/utils/schema.utils.ts *)

\* variant: the type list is applied whatever the algorithm
validateEncrypt_anyAlgorithm(field, encryptDef) ==
    IF ~TypeofObject(encryptDef)
    THEN Throw(SchemaError("InvalidEncryptDefinition", field, ""))
    ELSE IF ~Truthy(Get(encryptDef, "bsonType"))
    THEN Throw(SchemaError("MissingBsonType", field, ""))
    ELSE IF ~Truthy(Get(encryptDef, "algorithm"))
    THEN Throw(SchemaError("MissingAlgorithm", field, ""))
    ELSE IF ~\E i \in 1..Len(deterministicSupportedTypes) :
                Str(deterministicSupportedTypes[i]) = Get(encryptDef, "bsonType")
    THEN Throw(SchemaError("NotSupportedWithDeterministic", field, ToStr(Get(encryptDef, "bsonType"))))
    ELSE Ret(Undef)

validateEncrypt(field, encryptDef) ==
    IF ~TypeofObject(encryptDef)
    THEN Throw(SchemaError("InvalidEncryptDefinition", field, ""))
    ELSE IF encryptDef.k = "null"
    THEN Throw(Err("TypeError", Msg("CannotReadPropertiesOfNull", "", "bsonType", NoMsg)))
    ELSE IF ~Truthy(Get(encryptDef, "bsonType"))
    THEN Throw(SchemaError("MissingBsonType", field, ""))
    ELSE IF ~Truthy(Get(encryptDef, "algorithm"))
    THEN Throw(SchemaError("MissingAlgorithm", field, ""))
    ELSE LET bsonType == Get(encryptDef, "bsonType")
             algorithm == Get(encryptDef, "algorithm")
         IN  IF algorithm = Str(DETERMINISTIC)
                /\ ~\E i \in 1..Len(deterministicSupportedTypes) :
                        Str(deterministicSupportedTypes[i]) = bsonType
             THEN Throw(SchemaError("NotSupportedWithDeterministic", field, ToStr(bsonType)))
             ELSE Ret(Undef)

\* first key of obj, in key order, that is not in allowedKeys (0 if none)
FirstInvalidKey(obj) ==
    LET ks == Keys(obj)
        bad == {i \in 1..Len(ks) : ~Includes(allowedKeys, ks[i])}
    IN  IF bad = {} THEN 0 ELSE CHOOSE i \in bad : \A j \in bad : i <= j

RECURSIVE recursiveValidate(_, _)
RECURSIVE validateEach(_, _, _, _)

\* variant: a pattern extends the path the way a field name does
validateEach_dotted(entries, i, parentPath, isPattern) ==
    IF i > Len(entries) THEN Ret(Undef)
    ELSE LET r == recursiveValidate(entries[i][2], parentPath \o "." \o entries[i][1])
         IN  IF Threw(r) THEN r ELSE validateEach(entries, i + 1, parentPath, isPattern)

\* the two for-loops of recursiveValidate: entries from index i on, each
\* validated under parentPath.key (properties) or parentPath{key}
\* (patternProperties); the first throw ends the loop
validateEach(entries, i, parentPath, isPattern) ==
    IF i > Len(entries) THEN Ret(Undef)
    ELSE LET key == entries[i][1]
             childPath == IF isPattern
                          THEN parentPath \o "{" \o key \o "}"
                          ELSE parentPath \o "." \o key
             r == recursiveValidate(entries[i][2], childPath)
         IN  IF Threw(r) THEN r ELSE validateEach(entries, i + 1, parentPath, isPattern)

recursiveValidate(obj, parentPath) ==
    IF ~TypeofObject(obj) \/ obj.k = "null"
    THEN Throw(SchemaError("MustBeObjectDefinition", parentPath, ""))
    ELSE
    LET properties == Get(obj, "properties")
        patternProperties == Get(obj, "patternProperties")
        encrypt == Get(obj, "encrypt")
        bsonType == Get(obj, "bsonType")
    IN
    IF Truthy(properties) /\ bsonType # Str("object")
    THEN Throw(SchemaError("PropertiesMustHaveBsonTypeObject", parentPath, ""))
    ELSE IF Truthy(properties) /\ Len(Keys(properties)) = 0
    THEN Throw(SchemaError("PropertiesMustNotBeEmpty", parentPath, ""))
    ELSE
    LET r1 == IF Truthy(encrypt) THEN validateEncrypt(parentPath, encrypt) ELSE Ret(Undef)
    IN
    IF Threw(r1) THEN r1 ELSE
    LET r2 == IF Truthy(properties)
              THEN validateEach(Entries(properties), 1, parentPath, FALSE)
              ELSE Ret(Undef)
    IN
    IF Threw(r2) THEN r2 ELSE
    IF Truthy(patternProperties) /\ bsonType # Str("object")
    THEN Throw(SchemaError("PatternPropertiesMustBeInsideObject", parentPath, ""))
    ELSE
    LET r3 == IF Truthy(patternProperties)
              THEN validateEach(Entries(patternProperties), 1, parentPath, TRUE)
              ELSE Ret(Undef)
    IN
    IF Threw(r3) THEN r3 ELSE
    LET bad == FirstInvalidKey(obj)
    IN  IF bad # 0
        THEN Throw(SchemaError("InvalidKey", parentPath, Keys(obj)[bad]))
        ELSE Ret(Undef)

RECURSIVE validateCollections(_, _, _)
\* the for-loop of validateCSFLESchema over Object.entries(schemaObj)
validateCollections(entries, i, collectionName) ==
    IF i > Len(entries) THEN Ret(Bool(TRUE))
    ELSE LET schema == entries[i][2]
         IN  IF ~TypeofObject(schema) \/ schema.k = "null"
             THEN Throw(SchemaError("MustBeNonNullObject", collectionName, ""))
             ELSE LET r == recursiveValidate(schema, collectionName)
                  IN  IF Threw(r) THEN r
                      ELSE validateCollections(entries, i + 1, collectionName)

\* variant: an invalid schema is reported by returning false
validateCSFLESchema_false(schema, collectionName) ==
    IF ~Truthy(schema) \/ ~TypeofObject(schema) \/ Len(Keys(schema)) = 0
    THEN Ret(Bool(FALSE))
    ELSE LET r == validateCollections(Entries(schema), 1, collectionName)
         IN  IF Threw(r) THEN Ret(Bool(FALSE)) ELSE r

validateCSFLESchema(schema, collectionName) ==
    LET body == IF ~Truthy(schema) \/ ~TypeofObject(schema) \/ Len(Keys(schema)) = 0
                THEN Throw(SchemaError("SchemaCannotBeEmpty", "", ""))
                ELSE validateCollections(Entries(schema), 1, collectionName)
    IN  \* catch: a SchemaError is rethrown, anything else is wrapped
        IF Threw(body) /\ body.error.name # "SchemaError"
        THEN Throw(Err("SchemaError", Msg("SchemaValidationFailed", "", "", body.error.message)))
        ELSE body

-----------------------------------------------------------------------------
(* Error classes: errors/errors.ts *)

ValidationError(msg) == Err("ValidationError", msg)
EncryptionError(msg) == Err("EncryptionError", msg)
KMSError(msg) == Err("KMSError", msg)

\* an error raised by a collaborator (database driver, KMS back-end)
CollaboratorError(step) == Err("MongoError", Msg("collaborator", "", step, NoMsg))

RECURSIVE Mentions(_, _)
\* the message text contains path p, directly or in an interpolated inner
\* message
Mentions(msg, p) ==
    /\ msg.tmpl # "none"
    /\ \/ msg.path = p
       \/ Mentions(msg.cause, p)

-----------------------------------------------------------------------------
(* Key resolver: src/src/dekManager.ts, class DekManager (lines 145-287) *)

NumCallers == 2
Callers == 1..NumCallers

SupportedKms == {"local", "aws", "azure", "gcp", "kmip"}

IdleFrame == [pc |-> "idle", arg |-> "", pending |-> Ret(Undef), result |-> Ret(Undef)]

\* variant: the query names a field no key document has, so nothing matches
findOne_nomatch(v, name) == Null

\* keyVault.findOne({ keyAltNames: name }): the first matching document in
\* the collection's natural (insertion) order, or null
findOne(v, name) ==
    LET m == {i \in 1..Len(v) : v[i].altName = name}
    IN  IF m = {} THEN Null
        ELSE LET first == CHOOSE i \in m : \A j \in m : i <= j
             IN  Obj(<< <<"_id", Binary(v[first].id)>>,
                        <<"keyAltNames", Arr(<<Str(name)>>)>> >>)

getKmsProviderConfig(type) ==
    IF type \in SupportedKms
    THEN Ret(Obj(<< <<type, Obj(<<>>)>> >>))
    ELSE Throw(KMSError(Msg("UnsupportedKMSProvider", "", type, NoMsg)))

\* the catch block of getDEK
getDEKCatch(fieldKeyAltName, error) ==
    Throw(EncryptionError(Msg("FailedToCreateOrRetrieveDEK", fieldKeyAltName, "", error.message)))

\* the frame of a getDEK(path) invocation that has called connect()
EnterGetDEK(path) == [pc |-> "connect", arg |-> path, pending |-> Ret(Undef), result |-> Ret(Undef)]

\* await this.mongoClient.connect()  -- before the try block
Connect(c) ==
    /\ dek[c].pc = "connect"
    /\ \/ /\ clientOpen' = TRUE
          /\ dek' = [dek EXCEPT ![c].pc = "findOne"]
       \/ /\ clientOpen' = clientOpen
          /\ dek' = [dek EXCEPT ![c].pc = "done",
                                ![c].result = Throw(CollaboratorError("connect"))]
    /\ UNCHANGED <<vault, kmsType, hist, vvars, gvars, svars>>

\* await keyVault.findOne(...), then the synchronous code up to the next await
FindOne(c) ==
    /\ dek[c].pc = "findOne"
    /\ \/ LET existingKey == findOne(vault, dek[c].arg)
              cfg == getKmsProviderConfig(kmsType)
          IN  IF Truthy(existingKey)
              THEN dek' = [dek EXCEPT ![c].pc = "close",
                                      ![c].pending = Ret(Get(existingKey, "_id"))]
              ELSE IF Threw(cfg)
              THEN dek' = [dek EXCEPT ![c].pc = "close",
                                      ![c].pending = getDEKCatch(dek[c].arg, cfg.error)]
              ELSE dek' = [dek EXCEPT ![c].pc = "createDataKey"]
       \/ dek' = [dek EXCEPT ![c].pc = "close",
                             ![c].pending = getDEKCatch(dek[c].arg, CollaboratorError("findOne"))]
    /\ UNCHANGED <<vault, clientOpen, kmsType, hist, vvars, gvars, svars>>

\* variant: the creation looks the name up again and returns the key found
CreateDataKey_unique(c) ==
    /\ dek[c].pc = "createDataKey"
    /\ IF \E i \in 1..Len(vault) : vault[i].altName = dek[c].arg
       THEN /\ vault' = vault
            /\ dek' = [dek EXCEPT ![c].pc = "close",
                                  ![c].pending = Ret(Get(findOne(vault, dek[c].arg), "_id"))]
       ELSE /\ vault' = Append(vault, [id |-> Len(vault) + 1, altName |-> dek[c].arg])
            /\ dek' = [dek EXCEPT ![c].pc = "close", ![c].pending = Ret(Binary(Len(vault) + 1))]
    /\ UNCHANGED <<clientOpen, kmsType, hist, vvars, gvars, svars>>

\* variant: the new key document takes the place of the documents present
CreateDataKey_replace(c) ==
    /\ dek[c].pc = "createDataKey"
    /\ vault' = <<[id |-> Len(vault) + 1, altName |-> dek[c].arg]>>
    /\ dek' = [dek EXCEPT ![c].pc = "close", ![c].pending = Ret(Binary(Len(vault) + 1))]
    /\ UNCHANGED <<clientOpen, kmsType, hist, vvars, gvars, svars>>

\* await encryption.createDataKey(type, { masterKey, keyAltNames: [name] })
CreateDataKey(c) ==
    /\ dek[c].pc = "createDataKey"
    /\ \/ LET id == Len(vault) + 1
          IN  /\ vault' = Append(vault, [id |-> id, altName |-> dek[c].arg])
              /\ dek' = [dek EXCEPT ![c].pc = "close", ![c].pending = Ret(Binary(id))]
       \/ /\ vault' = vault
          /\ dek' = [dek EXCEPT ![c].pc = "close",
                                ![c].pending = getDEKCatch(dek[c].arg, CollaboratorError("createDataKey"))]
    /\ UNCHANGED <<clientOpen, kmsType, hist, vvars, gvars, svars>>

\* variant: the finally block leaves the connection as it is
Close_leak(c) ==
    /\ dek[c].pc = "close"
    /\ clientOpen' = clientOpen
    /\ dek' = [dek EXCEPT ![c].pc = "done", ![c].result = dek[c].pending]
    /\ UNCHANGED <<vault, kmsType, hist, vvars, gvars, svars>>

\* finally { await this.mongoClient.close() }: a throw from close() replaces
\* the pending outcome
Close(c) ==
    /\ dek[c].pc = "close"
    /\ \/ /\ clientOpen' = FALSE
          /\ dek' = [dek EXCEPT ![c].pc = "done", ![c].result = dek[c].pending]
       \/ /\ clientOpen' \in BOOLEAN
          /\ dek' = [dek EXCEPT ![c].pc = "done",
                                ![c].result = Throw(CollaboratorError("close"))]
    /\ UNCHANGED <<vault, kmsType, hist, vvars, gvars, svars>>

\* a caller invokes getDEK(path) while no other invocation is in progress
DirectCall(c, path) ==
    /\ gen.pc \in {"idle", "done"}
    /\ \A d \in Callers : dek[d].pc = "idle"
    /\ \A i \in 1..Len(hist) : hist[i].result # Pending
    /\ dek' = [dek EXCEPT ![c] = EnterGetDEK(path)]
    /\ hist' = Append(hist, [arg |-> path, before |-> vault, result |-> Pending, after |-> vault])
    /\ UNCHANGED <<vault, clientOpen, kmsType, vvars, gvars, svars>>

\* the promise of getDEK settles and the caller observes the outcome
DirectReturn(c) ==
    /\ gen.pc \in {"idle", "done"}
    /\ dek[c].pc = "done"
    /\ hist' = [hist EXCEPT ![Len(hist)].result = dek[c].result, ![Len(hist)].after = vault]
    /\ dek' = [dek EXCEPT ![c] = IdleFrame]
    /\ UNCHANGED <<vault, clientOpen, kmsType, vvars, gvars, svars>>

\* a caller invokes getDEK(path) whatever the other callers are doing: the
\* DekManager and its mongoClient are shared
ConcurrentCall(c, path) ==
    /\ gen.pc = "idle"
    /\ dek[c].pc = "idle"
    /\ dek' = [dek EXCEPT ![c] = EnterGetDEK(path)]
    /\ hist' = Append(hist, [arg |-> path, before |-> vault, result |-> Pending,
                             after |-> vault, caller |-> c])
    /\ UNCHANGED <<vault, clientOpen, kmsType, vvars, gvars, svars>>

\* the call of caller c that has not settled yet
PendingOf(c) == CHOOSE i \in 1..Len(hist) : hist[i].caller = c /\ hist[i].result = Pending

\* the promise of caller c's getDEK settles
ConcurrentReturn(c) ==
    /\ dek[c].pc = "done"
    /\ hist' = [hist EXCEPT ![PendingOf(c)].result = dek[c].result,
                            ![PendingOf(c)].after = vault]
    /\ dek' = [dek EXCEPT ![c] = IdleFrame]
    /\ UNCHANGED <<vault, clientOpen, kmsType, vvars, gvars, svars>>

-----------------------------------------------------------------------------
(* Schema expander: class EncryptionSchemaService                            *)
(* (src/docs/Testing-Guide.md, lines 288-441)                                *)

validTypes ==
    <<"double", "string", "object", "array", "binData", "undefined",
      "objectId", "bool", "date", "null", "regex", "dbPointer",
      "javascript", "symbol", "javascriptWithScope", "int", "timestamp",
      "long", "decimal", "minKey", "maxKey", "decimal128">>

\* String.prototype.toLowerCase on the tags that occur: every tag with an
\* upper-case letter is listed, all other tags are already lower-case
LowerTable ==
    ("binData" :> "bindata") @@ ("objectId" :> "objectid") @@
    ("dbPointer" :> "dbpointer") @@ ("javascriptWithScope" :> "javascriptwithscope") @@
    ("minKey" :> "minkey") @@ ("maxKey" :> "maxkey") @@
    ("String" :> "string") @@ ("STRING" :> "string") @@ ("Array" :> "array") @@
    ("BOOL" :> "bool") @@ ("Double" :> "double") @@ ("Decimal128" :> "decimal128") @@
    ("OBJECT" :> "object") @@ ("Int" :> "int") @@ ("LONG" :> "long") @@
    ("Date" :> "date") @@ ("OBJECTID" :> "objectid") @@ ("FOO" :> "foo")

toLowerCase(str) == IF str \in DOMAIN LowerTable THEN LowerTable[str] ELSE str

validateBsonType(bsonType, fieldPath) ==
    IF ~Includes(validTypes, bsonType)
    THEN Throw(ValidationError(Msg("InvalidBsonType", fieldPath, bsonType, NoMsg)))
    ELSE Ret(Undef)

\* the switch of processFields
algorithmFor(bsonType) ==
    IF bsonType \in {"array", "object", "bool", "double", "decimal128"}
    THEN RANDOM
    ELSE DETERMINISTIC

\* obj[key] = value on an entry list: replaces in place or appends
SetKey(entries, key, value) ==
    IF \E i \in 1..Len(entries) : entries[i][1] = key
    THEN [i \in 1..Len(entries) |->
            IF entries[i][1] = key THEN <<key, value>> ELSE entries[i]]
    ELSE Append(entries, <<key, value>>)

\* A processFields activation: the entries being looped over, the loop
\* index, the arguments and the properties accumulated so far
Frame(fields, collectionName, parentPath) ==
    [fields |-> fields, i |-> 1, collectionName |-> collectionName,
     parentPath |-> parentPath, properties |-> <<>>]

fieldNameOf(f) == f.fields[f.i][1]
fieldTypeOf(f) == f.fields[f.i][2]

\* variant: the parent path is dropped
fullPathOf_flat(f) == f.collectionName \o "." \o fieldNameOf(f)

fullPathOf(f) ==
    IF f.parentPath # ""
    THEN f.parentPath \o "." \o fieldNameOf(f)
    ELSE f.collectionName \o "." \o fieldNameOf(f)

bsonTypeOf(f) ==
    IF fieldTypeOf(f).k = "str" THEN toLowerCase(fieldTypeOf(f).s) ELSE "object"

IdleGen == [pc |-> "idle", jsonArray |-> <<>>, ci |-> 1, schemaMap |-> <<>>,
            stack |-> <<>>, result |-> Ret(Undef)]

GenDone(g, r) == [g EXCEPT !.pc = "done", !.result = r, !.stack = <<>>]

\* variant: the catch blocks rethrow what they caught
wrapThroughFrames_rethrow(error, stack, n) == error

RECURSIVE wrapThroughFrames(_, _, _)
\* an error thrown inside the inner try of activation number n propagates
\* outwards: the inner catch of every activation from n down to 1 wraps it
\* with that activation's current field path, the outer catches and the catch
\* of generateCSFLESchema rethrow an EncryptionError unchanged
wrapThroughFrames(error, stack, n) ==
    IF n = 0 THEN error
    ELSE wrapThroughFrames(
            EncryptionError(Msg("FailedToProcessField", fullPathOf(stack[n]), "", error.message)),
            stack, n - 1)

\* one synchronous step of generateCSFLESchema / processFields while no
\* getDEK call is outstanding (pc = "run")
genStep(g) ==
    IF g.stack = <<>>
    THEN \* the for-loop over jsonArray
         IF g.ci > Len(g.jsonArray)
         THEN GenDone(g, Ret(Obj(g.schemaMap)))
         ELSE LET collectionDef == g.jsonArray[g.ci]
                  collectionNames == Keys(collectionDef)
              IN  IF collectionDef.k \in {"null", "undef"}
                  THEN GenDone(g, Throw(EncryptionError(
                          Msg("FailedToGenerateCSFLESchema", "", "",
                              Msg("CannotConvertToObject", "", "", NoMsg)))))
                  ELSE IF Len(collectionNames) # 1
                  THEN GenDone(g, Throw(ValidationError(
                          Msg("ExactlyOneCollectionName", "", "", NoMsg))))
                  ELSE LET fields == Get(collectionDef, collectionNames[1])
                       IN  IF fields.k \in {"null", "undef"}
                           THEN \* Object.entries(null) inside processFields
                                GenDone(g, Throw(EncryptionError(
                                    Msg("FailedToProcessFields", "", "",
                                        Msg("CannotConvertToObject", "", "", NoMsg)))))
                           ELSE [g EXCEPT !.stack = <<Frame(Entries(fields), collectionNames[1], "")>>]
    ELSE LET n == Len(g.stack)
             top == g.stack[n]
         IN  IF top.i > Len(top.fields)
             THEN \* processFields returns its properties
                  LET node == Obj(<< <<"bsonType", Str("object")>>,
                                     <<"properties", Obj(top.properties)>> >>)
                  IN  IF n = 1
                      THEN [g EXCEPT !.schemaMap = SetKey(g.schemaMap, top.collectionName, node),
                                     !.ci = g.ci + 1,
                                     !.stack = <<>>]
                      ELSE [g EXCEPT !.stack =
                              [SubSeq(g.stack, 1, n - 1) EXCEPT
                                  ![n - 1].properties =
                                      SetKey(g.stack[n - 1].properties, fieldNameOf(g.stack[n - 1]), node),
                                  ![n - 1].i = g.stack[n - 1].i + 1]]
             ELSE \* const dekId = await this.dekManager.getDEK(fullPath)
                  [g EXCEPT !.pc = "await"]

\* the continuation of processFields after getDEK(fullPath) settled with r
genAfterDEK(g, r) ==
    LET n == Len(g.stack)
        top == g.stack[n]
        fieldType == fieldTypeOf(top)
        bsonType == bsonTypeOf(top)
        fullPath == fullPathOf(top)
    IN  IF Threw(r)
        THEN GenDone(g, Throw(wrapThroughFrames(r.error, g.stack, n)))
        ELSE IF bsonType = "object" /\ TypeofObject(fieldType)
        THEN IF fieldType.k = "null"
             THEN \* Object.entries(null) in the nested activation, wrapped by
                  \* its outer catch
                  GenDone(g, Throw(wrapThroughFrames(
                      EncryptionError(Msg("FailedToProcessFields", "", "",
                                          Msg("CannotConvertToObject", "", "", NoMsg))),
                      g.stack, n)))
             ELSE [g EXCEPT !.pc = "run",
                            !.stack = Append(g.stack, Frame(Entries(fieldType), top.collectionName, fullPath))]
        ELSE LET algorithm == algorithmFor(bsonType)
                 v == validateBsonType(bsonType, fullPath)
                 field == Obj(<< <<"encrypt",
                                   Obj(<< <<"keyId", Arr(<<r.value>>)>>,
                                          <<"bsonType", Str(bsonType)>>,
                                          <<"algorithm", Str(algorithm)>> >>)>> >>)
             IN  IF Threw(v)
                 THEN GenDone(g, Throw(wrapThroughFrames(v.error, g.stack, n)))
                 ELSE [g EXCEPT !.pc = "run",
                                !.stack[n].properties = SetKey(top.properties, fieldNameOf(top), field),
                                !.stack[n].i = top.i + 1]

RECURSIVE runSync(_)
\* run the synchronous code up to the next await or to the end of the call
runSync(g) == IF g.pc = "run" THEN runSync(genStep(g)) ELSE g

\* the code of generateCSFLESchema before its for-loop
genEnter(file) ==
    IF ~file.exists
    THEN GenDone(IdleGen, Throw(ValidationError(Msg("SchemaFileNotFound", "", "", NoMsg))))
    ELSE IF file.json.k = "syntaxError"
    THEN GenDone(IdleGen, Throw(ValidationError(
            Msg("InvalidJSON", "", "", Msg("SyntaxError", "", "", NoMsg)))))
    ELSE IF ~IsArray(file.json)
    THEN GenDone(IdleGen, Throw(ValidationError(
            Msg("InvalidJSON", "", "", Msg("MustContainJSONArray", "", "", NoMsg)))))
    ELSE [IdleGen EXCEPT !.pc = "run", !.jsonArray = file.json.a]

\* the getDEK call issued when the invocation reaches an await
IssueDEK(g, settled) ==
    IF g.pc = "await"
    THEN /\ dek' = [dek EXCEPT ![1] = EnterGetDEK(fullPathOf(g.stack[Len(g.stack)]))]
         /\ dekCalls' = Append(settled, [path |-> fullPathOf(g.stack[Len(g.stack)]),
                                         result |-> Pending])
    ELSE /\ dek' = [dek EXCEPT ![1] = IdleFrame]
         /\ dekCalls' = settled

\* generateCSFLESchema(schemaFilePath) is called and runs to its first await
GenCall ==
    /\ gen.pc = "idle"
    /\ \A c \in Callers : dek[c].pc = "idle"
    /\ gen' = runSync(genEnter(schemaFile))
    /\ IssueDEK(gen', dekCalls)
    /\ UNCHANGED <<vault, clientOpen, kmsType, hist, schemaFile, vvars, svars>>

\* the awaited getDEK settles; the invocation runs on to its next await
GenResume ==
    /\ gen.pc = "await"
    /\ dek[1].pc = "done"
    /\ gen' = runSync(genAfterDEK(gen, dek[1].result))
    /\ IssueDEK(gen', [dekCalls EXCEPT ![Len(dekCalls)].result = dek[1].result])
    /\ UNCHANGED <<vault, clientOpen, kmsType, hist, schemaFile, vvars, svars>>

-----------------------------------------------------------------------------
(* Service object: src/src/encryption.ts, class ServerEncryptionService      *)
(* (lines 13-291)                                                            *)

ConfigurationError(msg) == Err("ConfigurationError", msg)

\* the fields of a constructed service: keyVault and kmsProvider as passed
\* to the constructor, the other three undefined
NewService(keyVault, kmsProvider) ==
    [keyVault |-> keyVault, kmsProvider |-> kmsProvider,
     schema |-> Undef, config |-> Undef, encryptedMongoClient |-> Undef]

\* the provider types of the switch of buildEncryptionConfig
ConfigKms == {"local", "aws", "azure", "gcp"}

\* the part of buildEncryptionConfig after the schema validation, whose
\* outcome is validated
kmsProvidersConfig(this, validated) ==
    IF Threw(validated)
    THEN Throw(ValidationError(Msg("SchemaValidationFailed", "", "", validated.error.message)))
    ELSE IF Get(this.kmsProvider, "type").k = "str" /\ Get(this.kmsProvider, "type").s \in ConfigKms
    THEN Ret(Obj(<< <<"autoEncryption",
            Obj(<< <<"keyVaultNamespace",
                     Str(Get(this.keyVault, "database").s \o "." \o
                         Get(this.keyVault, "collection").s)>>,
                   <<"kmsProviders", Obj(<< <<Get(this.kmsProvider, "type").s, Obj(<<>>)>> >>)>>,
                   <<"schemaMap", this.schema>> >>)>> >>))
    ELSE Throw(ConfigurationError(
            Msg("UnsupportedKMSProvider", "", ToStr(Get(this.kmsProvider, "type")), NoMsg)))

buildEncryptionConfig(this) ==
    IF \/ ~Truthy(this.keyVault)
       \/ ~Truthy(Get(this.keyVault, "database"))
       \/ ~Truthy(Get(this.keyVault, "collection"))
    THEN Throw(ConfigurationError(Msg("InvalidKeyVaultConfiguration", "", "", NoMsg)))
    ELSE IF ~Truthy(this.kmsProvider)
    THEN Throw(ConfigurationError(Msg("KMSProviderRequired", "", "", NoMsg)))
    ELSE IF ~Truthy(this.schema)
    THEN Throw(ConfigurationError(Msg("EncryptionSchemaRequired", "", "", NoMsg)))
    ELSE kmsProvidersConfig(this, validateCSFLESchema(this.schema, "root"))

\* an outcome together with the fields of the service after the call
After(this, out) == [this |-> this, out |-> out]

\* variant: the client is created before the configuration is built
initializeWith_clientFirst(this, built, clientOk) ==
    IF Threw(built)
    THEN After([this EXCEPT !.encryptedMongoClient = Obj(<<>>)],
               Throw(ConfigurationError(
                   Msg("FailedToInitializeEncryption", "", "", built.error.message))))
    ELSE After([this EXCEPT !.config = built.value,
                            !.encryptedMongoClient = Obj(<< <<"options", built.value>> >>)],
               Ret(Undef))

\* the body of initialize() once buildEncryptionConfig() has ended with built;
\* clientOk says whether new MongoClient(uri, config) succeeds
initializeWith(this, built, clientOk) ==
    IF Threw(built)
    THEN After(this, Throw(ConfigurationError(
            Msg("FailedToInitializeEncryption", "", "", built.error.message))))
    ELSE IF ~clientOk
    THEN After([this EXCEPT !.config = built.value],
               Throw(ConfigurationError(
                   Msg("FailedToInitializeEncryption", "", "",
                       CollaboratorError("MongoClient").message))))
    ELSE After([this EXCEPT !.config = built.value,
                            !.encryptedMongoClient = Obj(<< <<"options", built.value>> >>)],
               Ret(Undef))

initialize(this, clientOk) == initializeWith(this, buildEncryptionConfig(this), clientOk)

\* the catch block of initializeWithSchema applied to the end r of its try
\* block
initializeWithSchemaCatch(r) ==
    IF Threw(r.out) /\ r.out.error.name \notin {"ValidationError", "ConfigurationError"}
    THEN After(r.this, Throw(ConfigurationError(
            Msg("FailedToInitializeWithSchema", "", "", r.out.error.message))))
    ELSE r

initializeWithSchema(this, schema, clientOk) ==
    IF ~Truthy(schema) \/ Len(Keys(schema)) = 0
    THEN After(this, Throw(ValidationError(Msg("EncryptionSchemaRequired", "", "", NoMsg))))
    ELSE initializeWithSchemaCatch(initialize([this EXCEPT !.schema = schema], clientOk))

getMongoClient(this) ==
    IF ~Truthy(this.encryptedMongoClient)
    THEN Throw(ConfigurationError(Msg("MongoClientNotInitialized", "", "", NoMsg)))
    ELSE Ret(this.encryptedMongoClient)

getSchema(this) ==
    IF ~Truthy(this.schema)
    THEN Throw(ConfigurationError(Msg("SchemaNotInitialized", "", "", NoMsg)))
    ELSE Ret(this.schema)

Logged(op, arg, result) == Append(svcLog, [op |-> op, arg |-> arg, result |-> result])

\* a call on the service ends with r: the fields change and the call is logged
Settle(op, arg, r) ==
    /\ svc' = r.this
    /\ svcLog' = Logged(op, arg, r.out)

InitializeWithSchema(schema) ==
    /\ \E clientOk \in BOOLEAN :
          Settle("initializeWithSchema", schema, initializeWithSchema(svc, schema, clientOk))
    /\ UNCHANGED <<vvars, dvars, gvars>>

GetMongoClient ==
    /\ svcLog' = Logged("getMongoClient", Undef, getMongoClient(svc))
    /\ UNCHANGED <<svc, vvars, dvars, gvars>>

GetSchema ==
    /\ svcLog' = Logged("getSchema", Undef, getSchema(svc))
    /\ UNCHANGED <<svc, vvars, dvars, gvars>>

\* validateSchemaFilePath: the path is a non-empty string; the file must exist
validateSchemaFilePath(file) ==
    IF ~file.exists
    THEN Throw(ValidationError(Msg("SchemaFileDoesNotExist", "", "", NoMsg)))
    ELSE Ret(Undef)

\* the catch block of loadSchemaFromFile applied to the end of
\* generateCSFLESchema
loadSchemaFromFileCatch(generated) ==
    IF Threw(generated)
    THEN Throw(EncryptionError(Msg("FailedToLoadSchemaFromFile", "", "", generated.error.message)))
    ELSE generated

\* the catch block of initializeWithFile applied to the end r of its try block
initializeWithFileCatch(r) ==
    IF Threw(r.out) /\ r.out.error.name \notin {"ValidationError", "ConfigurationError"}
    THEN After(r.this, Throw(ConfigurationError(
            Msg("FailedToInitializeWithSchemaFile", "", "", r.out.error.message))))
    ELSE r

\* initializeWithFile from the point where loadSchemaFromFile has ended with
\* loaded
initializeWithFileAfterLoad(this, loaded, clientOk) ==
    IF Threw(loaded)
    THEN initializeWithFileCatch(After(this, loaded))
    ELSE initializeWithFileCatch(initialize([this EXCEPT !.schema = loaded.value], clientOk))

\* the initializeWithFile call that has not settled yet, 0 if none
PendingCall ==
    IF \E i \in 1..Len(svcLog) : svcLog[i].result = Pending
    THEN CHOOSE i \in 1..Len(svcLog) : svcLog[i].result = Pending
    ELSE 0

\* initializeWithFile(schemaFilePath) with the default loader is called and
\* runs to its first await: inside generateCSFLESchema, or to its end when
\* the path is rejected
InitializeWithFileCall ==
    /\ gen.pc = "idle"
    /\ \A c \in Callers : dek[c].pc = "idle"
    /\ PendingCall = 0
    /\ IF Threw(validateSchemaFilePath(schemaFile))
       THEN /\ svc' = svc
            /\ svcLog' = Append(svcLog,
                    [op |-> "initializeWithFile", arg |-> schemaFile.json,
                     result |-> initializeWithFileCatch(
                                    After(svc, validateSchemaFilePath(schemaFile))).out,
                     before |-> vault, after |-> vault])
            /\ UNCHANGED <<gen, dek, dekCalls>>
       ELSE /\ gen' = runSync(genEnter(schemaFile))
            /\ IssueDEK(gen', <<>>)
            /\ svc' = svc
            /\ svcLog' = Append(svcLog,
                    [op |-> "initializeWithFile", arg |-> schemaFile.json,
                     result |-> Pending, before |-> vault, after |-> vault])
    /\ UNCHANGED <<vault, clientOpen, kmsType, hist, schemaFile, vvars>>

\* the pending call settles with r
SettlePending(r) ==
    /\ svc' = r.this
    /\ svcLog' = [svcLog EXCEPT ![PendingCall].result = r.out, ![PendingCall].after = vault]

\* generateCSFLESchema has ended; initializeWithFile runs on to its end
InitializeWithFileResume ==
    /\ PendingCall # 0
    /\ gen.pc = "done"
    /\ \E clientOk \in BOOLEAN :
          SettlePending(initializeWithFileAfterLoad(svc, loadSchemaFromFileCatch(gen.result), clientOk))
    /\ gen' = IdleGen
    /\ UNCHANGED <<vault, clientOpen, kmsType, dek, hist, schemaFile, dekCalls, vvars>>

-----------------------------------------------------------------------------
(* Inputs of the validator: a node under test placed at a position of an     *)
(* otherwise well-formed schema tree                                         *)

MaxDepth == 2

\* type names: TBsonType (src/src/types/schema.d.ts) plus the names the
\* validator and the expander mention
BsonTypeNames ==
    {"double", "string", "array", "binData", "undefined", "objectId", "bool",
     "date", "null", "regex", "dbPointer", "javascript", "symbol",
     "javascriptWithScope", "int", "timestamp", "long", "decimal", "minKey",
     "maxKey", "object", "decimal128", "uuid", "int32", "int64", "binary"}

EmptyArray == Arr(<<>>)

EncryptDef(bsonType, algorithm) ==
    Obj(<< <<"bsonType", bsonType>>, <<"algorithm", algorithm>>, <<"keyId", EmptyArray>> >>)

EncryptedField(bsonType, algorithm) ==
    Obj(<< <<"encrypt", EncryptDef(Str(bsonType), Str(algorithm))>> >>)

GoodLeaf == EncryptedField("string", DETERMINISTIC)
GoodLeaf2 == EncryptedField("array", RANDOM)

\* values tried for the encrypt key
EncryptValues ==
    {EncryptDef(Str(t), Str(a)) : t \in BsonTypeNames, a \in {DETERMINISTIC, RANDOM}}
    \cup {Null, Bool(FALSE), Num(0), Str(""), Str("x"), Num(1), Bool(TRUE), Obj(<<>>),
          Obj(<< <<"bsonType", Str("string")>> >>),
          Obj(<< <<"algorithm", Str(RANDOM)>> >>),
          EncryptDef(Str(""), Str(RANDOM)),
          EncryptDef(Str("string"), Str("")),
          EncryptDef(Null, Str(DETERMINISTIC)),
          EncryptDef(Str("string"), Null)}

Opt(key, vals) == {<<>>} \cup {<< <<key, v>> >> : v \in vals}

\* nodes with every combination of bsonType / properties / patternProperties
\* / one more key
StructuralNodes ==
    {Obj(b \o p \o pp \o x) :
        b \in Opt("bsonType", {Str("object"), Str("string")}),
        p \in Opt("properties", {Null, Obj(<<>>), Obj(<< <<"f", GoodLeaf>> >>)}),
        pp \in Opt("patternProperties", {Obj(<<>>), Obj(<< <<"^p_", GoodLeaf2>> >>)}),
        x \in Opt("description", {Str("d")}) \cup Opt("foo", {Str("bar")})}

\* nodes that carry keys outside the allow-list: on an encrypted leaf, on an
\* object node before and after its allowed keys, two at once, and an array
\* used as a node (its keys are its indices)
ExtraKeyNodes ==
    {Obj(GoodLeaf.e \o << <<"foo", Str("bar")>> >>),
     Obj(<< <<"foo", Str("bar")>> >> \o GoodLeaf.e),
     Obj(<< <<"default", Num(0)>>, <<"bsonType", Str("object")>>,
            <<"properties", Obj(<< <<"f", GoodLeaf>> >>)>> >>),
     Obj(<< <<"bsonType", Str("string")>>, <<"minLength", Num(1)>>, <<"enum", EmptyArray>> >>),
     Obj(<< <<"bsonType", Str("object")>>,
            <<"patternProperties", Obj(<< <<"^p_", GoodLeaf2>> >>)>>,
            <<"additionalProperties", Bool(FALSE)>> >>),
     Arr(<<GoodLeaf>>),
     EmptyArray}

\* values that are not structured: null and primitives
PrimitiveNodes == {Null, Str("not an object"), Str(""), Num(0), Num(1), Bool(TRUE), Bool(FALSE)}

FocusNodes ==
    {Obj(<< <<"encrypt", e>> >>) : e \in EncryptValues}
    \cup StructuralNodes
    \cup ExtraKeyNodes
    \cup PrimitiveNodes

\* one descent step: through properties[key] or patternProperties[key], with
\* well-formed siblings before and after
Steps ==
    {[kind |-> "prop", key |-> "ssn", before |-> <<>>, after |-> <<>>],
     [kind |-> "prop", key |-> "profile",
      before |-> << <<"name", GoodLeaf>> >>, after |-> << <<"zip", GoodLeaf2>> >>],
     [kind |-> "pat", key |-> "^meta_", before |-> <<>>, after |-> <<>>]}

RECURSIVE SeqsUpTo(_, _)
SeqsUpTo(S, n) ==
    IF n = 0 THEN {<<>>}
    ELSE LET shorter == SeqsUpTo(S, n - 1)
         IN  shorter \cup {<<x>> \o s : x \in S, s \in {t \in shorter : Len(t) = n - 1}}

Contexts == SeqsUpTo(Steps, MaxDepth)

RECURSIVE Wrap(_, _)
\* the tree that holds node at position c
Wrap(node, c) ==
    IF c = <<>> THEN node
    ELSE LET st == Head(c)
             members == st.before \o << <<st.key, Wrap(node, Tail(c))>> >> \o st.after
         IN  Obj(<< <<"bsonType", Str("object")>>,
                    <<(IF st.kind = "prop" THEN "properties" ELSE "patternProperties"),
                      Obj(members)>> >>)

RECURSIVE CtxPath(_, _)
\* the path of position c below a root labelled label
CtxPath(label, c) ==
    IF c = <<>> THEN label
    ELSE CtxPath(IF Head(c).kind = "prop"
                 THEN label \o "." \o Head(c).key
                 ELSE label \o "{" \o Head(c).key \o "}", Tail(c))

GoodCollection ==
    Obj(<< <<"bsonType", Str("object")>>, <<"properties", Obj(<< <<"id", GoodLeaf>> >>)>> >>)

\* a schema map with the tree as its only collection (n = 1) or as the second
\* of two collections (n = 2)
TopSchema(node, c, n) ==
    IF n = 1 THEN Obj(<< <<"test.user", Wrap(node, c)>> >>)
    ELSE Obj(<< <<"test.order", GoodCollection>>, <<"test.user", Wrap(node, c)>> >>)

\* top-level arguments that are not a schema map at all
DegenerateSchemas == {Undef, Null, Obj(<<>>), Str("schema"), Num(0)}

\* a schema map whose only collection has no fields at all
EmptyCollectionSchema == Obj(<< <<"db.collection", Obj(<<>>)>> >>)

RootLabels == {"root", "user"}

InTree == schemaObj \in {TopSchema(focus, ctx, 1), TopSchema(focus, ctx, 2)}

-----------------------------------------------------------------------------
(* Specification of the validator: one call on every input *)

\* the parts of the state a specification does not exercise
ValidatorOff ==
    /\ focus = Undef /\ ctx = <<>> /\ schemaObj = Undef
    /\ rootLabel = "root" /\ vpc = "off" /\ vResult = Ret(Undef)

ResolverOff ==
    /\ vault = <<>> /\ clientOpen = FALSE /\ kmsType = "local"
    /\ dek = [c \in Callers |-> IdleFrame] /\ hist = <<>>

ExpanderOff ==
    /\ schemaFile = [exists |-> FALSE, json |-> Undef]
    /\ gen = IdleGen /\ dekCalls = <<>>

ServiceOff ==
    /\ svc = NewService(Undef, Undef)
    /\ svcLog = <<>>

InitValidate ==
    /\ ServiceOff
    /\ ResolverOff
    /\ ExpanderOff
    /\ rootLabel \in RootLabels
    /\ vpc = "ready"
    /\ vResult = Ret(Undef)
    /\ \/ /\ focus \in FocusNodes
          /\ ctx \in Contexts
          /\ \E n \in 1..2 : schemaObj = TopSchema(focus, ctx, n)
       \/ /\ focus = Undef
          /\ ctx = <<>>
          /\ schemaObj \in DegenerateSchemas \cup {EmptyCollectionSchema}

Validate ==
    /\ vpc = "ready"
    /\ vResult' = validateCSFLESchema(schemaObj, rootLabel)
    /\ vpc' = "done"
    /\ UNCHANGED <<focus, ctx, schemaObj, rootLabel>>
    /\ UNCHANGED <<dvars, gvars, svars>>

NextValidate == Validate

SpecValidate == InitValidate /\ [][NextValidate]_vars

-----------------------------------------------------------------------------
(* Inputs of the resolver and of the expander *)

MaxInitKeys == 2
MaxCalls == 2
MaxNest == 3

KmsTypes == SupportedKms \cup {"hashicorp"}

\* alternate names of keys present in the vault before the first call
SeedAltNames == {"app.users.ssn", "db.coll.f", "db.coll.a.b"}

\* key-vault contents: any records, including several with one alternate name
InitVaults ==
    {[i \in 1..Len(names) |-> [id |-> i, altName |-> names[i]]] :
        names \in SeqsUpTo(SeedAltNames, MaxInitKeys)}

DirectPaths == {"app.users.ssn", "db.coll.f"}

\* type tags written in schema files: the valid ones, other letter cases of
\* them, and tags that are not BSON types
TypeTags ==
    {validTypes[i] : i \in 1..Len(validTypes)}
    \cup (DOMAIN LowerTable)
    \cup {"foo", "uuid", "int32", "binary"}

NestNames == <<"a", "b", "c", "d", "e">>

RECURSIVE NestFrom(_, _, _)
\* the field map { a: { b: ... tag } } with the tag at depth d
NestFrom(tag, i, d) ==
    IF i = d THEN Obj(<< <<NestNames[i], Str(tag)>> >>)
    ELSE Obj(<< <<NestNames[i], NestFrom(tag, i + 1, d)>> >>)

Nest(tag, d) == NestFrom(tag, 1, d)

RECURSIVE NestPathFrom(_, _, _)
NestPathFrom(prefix, i, d) ==
    IF i > d THEN prefix ELSE NestPathFrom(prefix \o "." \o NestNames[i], i + 1, d)

\* the path of the tag of Nest(tag, d) in collection coll
NestPath(coll, d) == NestPathFrom(coll, 1, d)

NestTags == {"string", "bool", "foo", "objectId", "STRING"}

EndToEndFields ==
    Obj(<< <<"ssn", Str("string")>>,
           <<"tags", Str("array")>>,
           <<"profile", Obj(<< <<"email", Str("string")>> >>)>> >>)

SiblingFields ==
    Obj(<< <<"s", Str("string")>>,
           <<"n", Obj(<< <<"x", Str("Double")>>,
                         <<"m", Obj(<< <<"y", Str("date")>> >>)>>,
                         <<"z", Str("int")>> >>)>>,
           <<"t", Str("foo")>> >>)

Collection(name, fields) == Obj(<< <<name, fields>> >>)

NoKeys == Obj(<<>>)
TwoKeys == Obj(<< <<"db.one", Obj(<< <<"p", Str("string")>> >>)>>,
                  <<"db.two", Obj(<< <<"q", Str("string")>> >>)>> >>)
Good1 == Collection("db.c1", Obj(<< <<"x", Str("string")>> >>))
Good2 == Collection("db.c2", Obj(<< <<"y", Str("int")>>, <<"w", Str("bool")>> >>))

\* the single-field input [{ "db.coll": { "f": tag } }]
SingleField(tag) == <<Collection("db.coll", Obj(<< <<"f", Str(tag)>> >>))>>

JsonArrays ==
    {SingleField(t) : t \in TypeTags}
    \cup {<<Collection("db.coll", Nest(t, d))>> : t \in NestTags, d \in 1..MaxNest}
    \cup {<<Collection("app.users", EndToEndFields)>>,
          <<Collection("db.coll", SiblingFields)>>,
          <<Collection("db.coll", Obj(<<>>))>>,
          <<Collection("db.coll", Obj(<< <<"a", Obj(<<>>)>> >>))>>,
          <<>>,
          <<Good1, Good2>>,
          <<NoKeys>>, <<TwoKeys>>,
          <<Good1, NoKeys>>, <<Good1, TwoKeys>>,
          <<TwoKeys, Good1>>, <<NoKeys, Good1>>,
          <<Good1, Good2, TwoKeys>>}

SchemaFiles ==
    {[exists |-> TRUE, json |-> Arr(a)] : a \in JsonArrays}
    \cup {[exists |-> FALSE, json |-> Undef],
          [exists |-> TRUE, json |-> [k |-> "syntaxError"]],
          [exists |-> TRUE, json |-> Collection("db.coll", Nest("string", 1))]}

-----------------------------------------------------------------------------
(* Specification of the resolver: sequential getDEK calls *)

InitDekSeq ==
    /\ ServiceOff
    /\ ValidatorOff
    /\ ExpanderOff
    /\ vault \in InitVaults
    /\ clientOpen = FALSE
    /\ kmsType \in KmsTypes
    /\ dek = [c \in Callers |-> IdleFrame]
    /\ hist = <<>>

NextDekSeq ==
    \/ \E c \in Callers, path \in DirectPaths : Len(hist) < MaxCalls /\ DirectCall(c, path)
    \/ \E c \in Callers : DirectReturn(c)
    \/ \E c \in Callers : Connect(c)
    \/ \E c \in Callers : FindOne(c)
    \/ \E c \in Callers : CreateDataKey(c)
    \/ \E c \in Callers : Close(c)

SpecDekSeq == InitDekSeq /\ [][NextDekSeq]_vars

-----------------------------------------------------------------------------
(* Specification of the expander: one generateCSFLESchema call *)

InitExpand ==
    /\ ServiceOff
    /\ ValidatorOff
    /\ vault \in InitVaults
    /\ clientOpen = FALSE
    /\ kmsType \in KmsTypes
    /\ dek = [c \in Callers |-> IdleFrame]
    /\ hist = <<>>
    /\ schemaFile \in SchemaFiles
    /\ gen = IdleGen
    /\ dekCalls = <<>>

NextExpand ==
    \/ GenCall
    \/ GenResume
    \/ Connect(1)
    \/ FindOne(1)
    \/ CreateDataKey(1)
    \/ Close(1)

SpecExpand == InitExpand /\ [][NextExpand]_vars

-----------------------------------------------------------------------------
(* Specification of a session: getDEK calls made directly, before and after  *)
(* one generateCSFLESchema call, all against the same key vault              *)

MaxSessionCalls == 1

SessionVaults == {v \in InitVaults : Len(v) <= 1}

SessionFiles ==
    {[exists |-> TRUE, json |-> Arr(a)] :
        a \in {<<Collection("app.users", EndToEndFields)>>,
               SingleField("string"),
               SingleField("foo"),
               <<Good1, TwoKeys>>}}

SessionPaths == {"app.users.ssn", "db.coll.f", "db.c1.x"}

InitSession ==
    /\ ServiceOff
    /\ ValidatorOff
    /\ vault \in SessionVaults
    /\ clientOpen = FALSE
    /\ kmsType \in {"local", "hashicorp"}
    /\ dek = [c \in Callers |-> IdleFrame]
    /\ hist = <<>>
    /\ schemaFile \in SessionFiles
    /\ gen = IdleGen
    /\ dekCalls = <<>>

NextSession ==
    \/ \E path \in SessionPaths : Len(hist) < MaxSessionCalls /\ DirectCall(2, path)
    \/ DirectReturn(2)
    \/ GenCall
    \/ GenResume
    \/ \E c \in {1, 2} : Connect(c)
    \/ \E c \in {1, 2} : FindOne(c)
    \/ \E c \in {1, 2} : CreateDataKey(c)
    \/ \E c \in {1, 2} : Close(c)

SpecSession == InitSession /\ [][NextSession]_vars

-----------------------------------------------------------------------------
(* Specification of the service object: calls on one constructed service    *)

MaxServiceCalls == 2

KeyVaultConfigs ==
    {Obj(<< <<"database", Str("encryption")>>, <<"collection", Str("__keyVault")>> >>),
     Obj(<< <<"database", Str("encryption")>> >>),
     Obj(<< <<"database", Str("")>>, <<"collection", Str("__keyVault")>> >>)}

KmsProviders == {Undef} \cup {Obj(<< <<"type", Str(t)>> >>) : t \in KmsTypes}

PropStep == [kind |-> "prop", key |-> "ssn", before |-> <<>>, after |-> <<>>]
PatStep == [kind |-> "pat", key |-> "^meta_", before |-> <<>>, after |-> <<>>]

\* schema objects the validator accepts
AcceptedSchemas ==
    {TopSchema(GoodLeaf, <<PropStep>>, 1),
     TopSchema(GoodLeaf2, <<PatStep, PropStep>>, 2),
     EmptyCollectionSchema}

\* non-empty schema objects the validator rejects, one for each kind of fault
RejectedSchemas ==
    {TopSchema(EncryptedField("array", DETERMINISTIC), <<PropStep>>, 1),
     TopSchema(Null, <<PropStep>>, 1),
     TopSchema(Str("not an object"), <<>>, 1),
     TopSchema(Obj(<< <<"bsonType", Str("string")>>,
                      <<"properties", Obj(<< <<"f", GoodLeaf>> >>)>> >>), <<>>, 1),
     TopSchema(Obj(<< <<"bsonType", Str("object")>>, <<"properties", Obj(<<>>)>> >>), <<PatStep>>, 1),
     TopSchema(Obj(GoodLeaf.e \o << <<"foo", Str("bar")>> >>), <<PropStep>>, 2),
     TopSchema(Obj(<< <<"encrypt", Str("x")>> >>), <<PropStep>>, 1),
     TopSchema(Obj(<< <<"encrypt", Obj(<< <<"bsonType", Str("string")>> >>)>> >>), <<PropStep>>, 1)}

\* the schema objects passed to initializeWithSchema
ServiceSchemas ==
    AcceptedSchemas \cup RejectedSchemas \cup {Undef, Null, Obj(<<>>), Num(0)}

InitService ==
    /\ ValidatorOff
    /\ ResolverOff
    /\ ExpanderOff
    /\ svcLog = <<>>
    /\ \E keyVault \in KeyVaultConfigs, kmsProvider \in KmsProviders :
          svc = NewService(keyVault, kmsProvider)

NextService ==
    \/ \E schema \in ServiceSchemas :
          Len(svcLog) < MaxServiceCalls /\ InitializeWithSchema(schema)
    \/ Len(svcLog) < MaxServiceCalls /\ GetMongoClient
    \/ Len(svcLog) < MaxServiceCalls /\ GetSchema

SpecService == InitService /\ [][NextService]_vars

-----------------------------------------------------------------------------
(* Specification of the service object with a schema file: initializeWithFile *)
(* (default loader), initializeWithSchema, getMongoClient and getSchema on    *)
(* one constructed service, over the key vault                                *)

MaxFileCalls == 2

ValidKeyVault ==
    Obj(<< <<"database", Str("encryption")>>, <<"collection", Str("__keyVault")>> >>)

FileKmsTypes == {"local", "kmip", "hashicorp"}

FileVaults == {v \in InitVaults : Len(v) = 0 \/ (Len(v) = 1 /\ v[1].altName = "app.users.ssn")}

FileInputs ==
    {[exists |-> TRUE, json |-> Arr(a)] :
        a \in {<<Collection("app.users", EndToEndFields)>>,
               SingleField("string"),
               SingleField("foo"),
               <<Collection("db.coll", Obj(<<>>))>>}}
    \cup {[exists |-> FALSE, json |-> Undef]}

FileSchemas ==
    {TopSchema(GoodLeaf, <<PropStep>>, 1),
     TopSchema(EncryptedField("array", DETERMINISTIC), <<PropStep>>, 1)}

InitFile ==
    /\ ValidatorOff
    /\ vault \in FileVaults
    /\ clientOpen = FALSE
    /\ kmsType \in FileKmsTypes
    /\ dek = [c \in Callers |-> IdleFrame]
    /\ hist = <<>>
    /\ schemaFile \in FileInputs
    /\ gen = IdleGen
    /\ dekCalls = <<>>
    /\ svc = NewService(ValidKeyVault, Obj(<< <<"type", Str(kmsType)>> >>))
    /\ svcLog = <<>>

NextFile ==
    \/ Len(svcLog) < MaxFileCalls /\ InitializeWithFileCall
    \/ InitializeWithFileResume
    \/ \E schema \in FileSchemas : Len(svcLog) < MaxFileCalls /\ InitializeWithSchema(schema)
    \/ Len(svcLog) < MaxFileCalls /\ GetMongoClient
    \/ Len(svcLog) < MaxFileCalls /\ GetSchema
    \/ GenResume
    \/ Connect(1)
    \/ FindOne(1)
    \/ CreateDataKey(1)
    \/ Close(1)

SpecFile == InitFile /\ [][NextFile]_vars

-----------------------------------------------------------------------------
(* Specification of the resolver under concurrency: getDEK calls on one      *)
(* DekManager interleaved at their suspension points                         *)

MaxRaceCalls == 2

\* the two callers whose getDEK calls interleave
RaceCallers == {1, 2}

RaceVaults == {<<>>, <<[id |-> 1, altName |-> "app.users.ssn"]>>}

InitRace ==
    /\ ValidatorOff
    /\ ExpanderOff
    /\ ServiceOff
    /\ vault \in RaceVaults
    /\ clientOpen = FALSE
    /\ kmsType \in {"local", "hashicorp"}
    /\ dek = [c \in Callers |-> IdleFrame]
    /\ hist = <<>>

NextRace ==
    \/ \E c \in RaceCallers, path \in DirectPaths : Len(hist) < MaxRaceCalls /\ ConcurrentCall(c, path)
    \/ \E c \in RaceCallers : ConcurrentReturn(c)
    \/ \E c \in RaceCallers : Connect(c)
    \/ \E c \in RaceCallers : FindOne(c)
    \/ \E c \in RaceCallers : CreateDataKey(c)
    \/ \E c \in RaceCallers : Close(c)

SpecRace == InitRace /\ [][NextRace]_vars

-----------------------------------------------------------------------------
(* Properties of the validator (SpecValidate) *)

DeterministicCompatible == {"string", "int", "long", "date", "objectId", "uuid"}

\* C1: for every type T outside {string, int, long, date, objectId, uuid} and
\* every position of the schema tree, validating a schema that holds
\* {encrypt: {bsonType: T, algorithm: Deterministic}} at that position throws,
\* and the message names T and the path of that position.
C1_DeterministicIncompatibleRejected ==
    \A t \in BsonTypeNames \ DeterministicCompatible :
        (vpc = "done" /\ InTree /\ focus = EncryptedField(t, DETERMINISTIC))
        => /\ Threw(vResult)
           /\ vResult.error.message.tmpl = "NotSupportedWithDeterministic"
           /\ vResult.error.message.arg = t
           /\ vResult.error.message.path = CtxPath(rootLabel, ctx)

C1_Witness ==
    /\ vpc = "done" /\ InTree
    /\ focus = EncryptedField("array", DETERMINISTIC)
    /\ Len(ctx) = 2 /\ ctx[1].kind = "pat" /\ ctx[2].kind = "prop"
    /\ Threw(vResult)
    /\ vResult.error.message.arg = "array"

\* C8: validateCSFLESchema either returns the boolean true or throws; it never
\* returns false or any other value.
C8_TrueOrThrows ==
    vpc = "done" => (Threw(vResult) \/ vResult = Ret(Bool(TRUE)))

C8_Witness ==
    /\ vpc = "done"
    /\ schemaObj = TopSchema(Obj(<< <<"bsonType", Str("string")>>,
                                    <<"properties", Obj(<<>>)>> >>), <<>>, 1)
    /\ Threw(vResult)

RECURSIVE SubNodes(_)
\* a node and every node below it under properties and patternProperties
SubNodes(node) ==
    {node} \cup
    UNION {{} \cup UNION {SubNodes(Get(node, key).e[i][2]) : i \in 1..Len(Get(node, key).e)} :
            key \in {k \in {"properties", "patternProperties"} : Get(node, k).k = "obj"}}

\* the collection roots of a schema map and every node below them
NodesOf(schema) ==
    UNION {SubNodes(Entries(schema)[i][2]) : i \in 1..Len(Entries(schema))}

\* C10: in every schema that validateCSFLESchema accepts, every node that
\* declares a properties key has bsonType "object" and a non-empty properties
\* mapping.
C10_PropertiesImplyObject ==
    (vpc = "done" /\ vResult = Ret(Bool(TRUE)))
    => \A node \in NodesOf(schemaObj) :
          Has(node, "properties")
          => /\ Get(node, "bsonType") = Str("object")
             /\ Get(node, "properties").k = "obj"
             /\ Len(Keys(Get(node, "properties"))) > 0

AllowedKeySet ==
    {"bsonType", "properties", "patternProperties", "encrypt", "encryptMetadata",
     "description", "title", "required"}

\* the keys of a node outside the allow-list, in key order
ExtraKeys(node) == SelectSeq(Keys(node), LAMBDA key : key \notin AllowedKeySet)

\* the node without its keys outside the allow-list
Strip(node) ==
    IF node.k = "obj" THEN Obj(SelectSeq(node.e, LAMBDA en : en[1] \in AllowedKeySet))
    ELSE IF node.k = "arr" THEN EmptyArray
    ELSE node

\* the node under test is well-formed but for its keys outside the allow-list
OnlyExtraKeysWrong ==
    /\ InTree
    /\ ExtraKeys(focus) # <<>>
    /\ validateCSFLESchema(TopSchema(Strip(focus), ctx, 1), rootLabel) = Ret(Bool(TRUE))

\* C11: in every schema validateCSFLESchema accepts, every node (collection
\* roots, nodes under properties, nodes under patternProperties) has only keys
\* of the allow-list; and a key outside the allow-list on a node, at any
\* position, makes validation throw an error that names the key (the first
\* such key of the node) and the node's path.
C11_OnlyAllowedKeys ==
    /\ (vpc = "done" /\ vResult = Ret(Bool(TRUE)))
       => \A node \in NodesOf(schemaObj) : ExtraKeys(node) = <<>>
    /\ (vpc = "done" /\ OnlyExtraKeysWrong)
       => /\ Threw(vResult)
          /\ vResult.error.name = "SchemaError"
          /\ vResult.error.message.tmpl = "InvalidKey"
          /\ vResult.error.message.arg = ExtraKeys(focus)[1]
          /\ vResult.error.message.path = CtxPath(rootLabel, ctx)

C11_Witness ==
    /\ vpc = "done" /\ OnlyExtraKeysWrong
    /\ focus = Obj(<< <<"bsonType", Str("object")>>,
                      <<"patternProperties", Obj(<< <<"^p_", GoodLeaf2>> >>)>>,
                      <<"additionalProperties", Bool(FALSE)>> >>)
    /\ Len(ctx) = 2 /\ ctx[1].kind = "prop" /\ ctx[2].kind = "pat"
    /\ Threw(vResult)
    /\ vResult.error.message.arg = "additionalProperties"

\* C12: whenever a node declares an encrypt key, whatever its value, the
\* schema is accepted only if that value is a structured value with bsonType
\* and algorithm present; a non-structured value, a missing bsonType and a
\* missing algorithm are each reported by their own error.
C12_EncryptMustBeStructured ==
    (vpc = "done" /\ InTree /\ Has(focus, "encrypt"))
    => LET encrypt == Get(focus, "encrypt")
       IN  /\ vResult = Ret(Bool(TRUE))
              => /\ encrypt.k = "obj"
                 /\ Has(encrypt, "bsonType")
                 /\ Has(encrypt, "algorithm")
           /\ encrypt.k # "obj"
              => /\ Threw(vResult)
                 /\ vResult.error.message.tmpl = "InvalidEncryptDefinition"
                 /\ vResult.error.message.path = CtxPath(rootLabel, ctx)

\* C13: the path in an error of validateCSFLESchema is the root label followed
\* by ".<fieldName>" for each properties level and "{<pattern>}" for each
\* patternProperties level descended down to the node at fault; empty
\* properties at a collection root validated with label "user" reports "user",
\* a null node under properties.profile with label "root" reports
\* "root.profile".
C13_ErrorPath ==
    /\ (vpc = "done" /\ InTree /\ Threw(vResult))
       => vResult.error.message.path = CtxPath(rootLabel, ctx)
    /\ (vpc = "done" /\ InTree /\ rootLabel = "user" /\ ctx = <<>>
        /\ focus = Obj(<< <<"bsonType", Str("object")>>, <<"properties", Obj(<<>>)>> >>))
       => vResult = Throw(SchemaError("PropertiesMustNotBeEmpty", "user", ""))
    /\ (vpc = "done" /\ InTree /\ rootLabel = "root" /\ focus = Null
        /\ Len(ctx) = 1 /\ ctx[1].kind = "prop" /\ ctx[1].key = "profile")
       => vResult = Throw(SchemaError("MustBeObjectDefinition", "root.profile", ""))

C13_Witness ==
    /\ vpc = "done" /\ InTree /\ rootLabel = "user"
    /\ focus = Null
    /\ Len(ctx) = 2 /\ ctx[1].kind = "pat" /\ ctx[2].key = "profile"
    /\ vResult = Throw(SchemaError("MustBeObjectDefinition", "user{^meta_}.profile", ""))

\* C14: for every type T, a schema whose node under test is
\* {encrypt: {bsonType: T, algorithm: Random}} at any position of an otherwise
\* well-formed tree validates: validateCSFLESchema returns true.
C14_RandomAcceptsEveryType ==
    \A t \in BsonTypeNames :
        (vpc = "done" /\ InTree /\ focus = EncryptedField(t, RANDOM))
        => vResult = Ret(Bool(TRUE))

C14_Witness ==
    /\ vpc = "done" /\ InTree
    /\ focus = EncryptedField("binData", RANDOM)
    /\ Len(ctx) = 2
    /\ vResult = Ret(Bool(TRUE))

IsPrimitive(v) == v.k \in {"null", "undef", "str", "num", "bool"}

\* C15: validateCSFLESchema throws whenever a collection's root value or a
\* value under properties or patternProperties, at any depth, is null or a
\* primitive.
C15_PrimitiveNodeThrows ==
    (/\ vpc = "done"
     /\ schemaObj.k = "obj"
     /\ \E node \in NodesOf(schemaObj) : IsPrimitive(node))
    => Threw(vResult)

C15_Witness ==
    /\ vpc = "done" /\ InTree
    /\ focus = Bool(FALSE)
    /\ Len(ctx) = 2 /\ ctx[2].kind = "pat"
    /\ Threw(vResult)

\* C16: validateCSFLESchema throws a ValidationError for a schema whose
\* collection entry is an empty object, {"db.collection": {}}.
C16_EmptyCollectionRejected ==
    (vpc = "done" /\ schemaObj = EmptyCollectionSchema)
    => /\ Threw(vResult)
       /\ vResult.error.name = "ValidationError"

-----------------------------------------------------------------------------
(* Properties of the resolver (SpecDekSeq) *)

\* C4: two getDEK(P) calls made one after the other with no other call in
\* between return the same key handle, whether or not a key for P existed
\* before the first call.
C4_IdempotentResolution ==
    \A i \in 1..Len(hist) :
        (/\ i < Len(hist)
         /\ hist[i].arg = hist[i + 1].arg
         /\ Returned(hist[i].result)
         /\ Returned(hist[i + 1].result))
        => hist[i].result.value = hist[i + 1].result.value

C4_Witness ==
    /\ Len(hist) >= 2
    /\ hist[1].arg = hist[2].arg
    /\ findOne(hist[1].before, hist[1].arg) = Null
    /\ Returned(hist[1].result)
    /\ Returned(hist[2].result)

\* C17: every failure of a collaborator step inside getDEK(P) (opening the
\* connection, the key-vault lookup, the key creation) reaches the caller as
\* an EncryptionError whose message carries P and the cause's message; no raw
\* collaborator error escapes.  Outcomes produced by a failing close() are
\* left aside.
C17_CollaboratorFailureTagged ==
    \A c \in Callers :
        (/\ dek[c].pc = "done"
         /\ Threw(dek[c].result)
         /\ dek[c].result # Throw(CollaboratorError("close")))
        => /\ dek[c].result.error.name = "EncryptionError"
           /\ dek[c].result.error.message.path = dek[c].arg
           /\ dek[c].result.error.message.cause # NoMsg

\* the outcome is due to a failing collaborator
CollaboratorFailed(r) ==
    /\ Threw(r)
    /\ \/ r.error.name = "MongoError"
       \/ r.error.message.cause.tmpl = "collaborator"

\* C18: with a provider type outside the supported set, every getDEK call,
\* for a path with or without a key in the vault, fails with a
\* configuration-category error and creates no key.
C18_UnsupportedProviderFails ==
    \A i \in 1..Len(hist) :
        (/\ kmsType \notin SupportedKms
         /\ hist[i].result # Pending
         /\ ~CollaboratorFailed(hist[i].result))
        => /\ Threw(hist[i].result)
           /\ hist[i].result.error.name \in {"ConfigurationError", "KMSError"}
           /\ hist[i].after = hist[i].before

\* C25: a getDEK call that has opened the connection has closed it when the
\* call ends, on every exit path: an existing key returned, a new key created,
\* a failed lookup, a failed provider mapping, a failed key creation.
C25_ConnectionReleased ==
    \A c \in Callers :
        (/\ dek[c].pc = "done"
         /\ dek[c].result # Throw(CollaboratorError("connect"))
         /\ dek[c].result # Throw(CollaboratorError("close")))
        => ~clientOpen

C25_Witness ==
    /\ dek[2].pc = "done"
    /\ Threw(dek[2].result)
    /\ dek[2].result.error.message.cause = KMSError(Msg("UnsupportedKMSProvider", "", "hashicorp", NoMsg)).message
    /\ ~clientOpen

-----------------------------------------------------------------------------
(* Properties of a session (SpecSession) *)

\* a getDEK call for path p is running
Running(p) == \E c \in Callers : dek[c].pc \notin {"idle", "done"} /\ dek[c].arg = p

\* the records named p
Named(v, p) == {i \in 1..Len(v) : v[i].altName = p}

\* a step keeps every record as it is and adds at most one record, named by
\* the path of a running call that had no record
AppendOnlyStep ==
    \/ vault' = vault
    \/ /\ Len(vault') = Len(vault) + 1
       /\ SubSeq(vault', 1, Len(vault)) = vault
       /\ Running(vault'[Len(vault')].altName)
       /\ Named(vault, vault'[Len(vault')].altName) = {}

\* the effect of a settled getDEK call on the vault
CallEffect(h) ==
    IF Named(h.before, h.arg) # {}
    THEN h.after = h.before
    ELSE /\ Len(h.after) <= Len(h.before) + 1
         /\ SubSeq(h.after, 1, Len(h.before)) = h.before
         /\ Named(h.after, h.arg) = {i \in 1..Len(h.after) : i > Len(h.before)}
         /\ Returned(h.result)
            => /\ Len(h.after) = Len(h.before) + 1
               /\ h.result.value = Binary(h.after[Len(h.after)].id)

\* C19: across a sequence of getDEK and generateCSFLESchema calls, successful
\* or failed, no key-vault record is deleted or modified; a getDEK call for a
\* path that has a key leaves the vault unchanged, and one for a path without
\* a key adds one record named by that path (none if it fails before the key
\* is created) and changes nothing else.
C19_VaultAppendOnly ==
    /\ [][AppendOnlyStep]_vars
    /\ [](\A i \in 1..Len(hist) : hist[i].result # Pending => CallEffect(hist[i]))

C19_Witness ==
    /\ gen.pc = "done"
    /\ Returned(gen.result)
    /\ Len(dekCalls) = 4
    /\ Len(hist) = 1
    /\ hist[1].arg = "app.users.ssn"
    /\ Returned(hist[1].result)
    /\ hist[1].after = hist[1].before
    /\ Len(hist[1].before) = 4

-----------------------------------------------------------------------------
(* Properties of the expander (SpecExpand) *)

CallPaths == [i \in 1..Len(dekCalls) |-> dekCalls[i].path]

AllDEKReturned == \A i \in 1..Len(dekCalls) : Returned(dekCalls[i].result)

InputIs(a) == schemaFile = [exists |-> TRUE, json |-> Arr(a)]

\* tags that name a valid type when letter case is ignored, and the valid
\* type they name
SupportedTagInputs ==
    {t \in TypeTags : \E i \in 1..Len(validTypes) : toLowerCase(validTypes[i]) = toLowerCase(t)}

CanonicalTag(t) ==
    validTypes[CHOOSE i \in 1..Len(validTypes) : toLowerCase(validTypes[i]) = toLowerCase(t)]

UnsupportedTags == TypeTags \ SupportedTagInputs

RandomTypes == {"array", "object", "bool", "double", "decimal128"}

\* C2: for every supported type tag T in any letter case, expanding
\* [{"db.coll": {"f": T}}] succeeds and emits for f an encrypt node whose
\* bsonType is the normal form of T and whose algorithm is Random for array,
\* object, bool, double, decimal128 and Deterministic otherwise.
C2_RoundTripTypeMapping ==
    \A t \in SupportedTagInputs :
        (gen.pc = "done" /\ InputIs(SingleField(t)) /\ AllDEKReturned)
        => /\ Returned(gen.result)
           /\ LET node == Get(Get(Get(gen.result.value, "db.coll"), "properties"), "f")
                  enc == Get(node, "encrypt")
              IN  /\ Get(enc, "bsonType") = Str(CanonicalTag(t))
                  /\ Get(enc, "algorithm") =
                        Str(IF CanonicalTag(t) \in RandomTypes THEN RANDOM ELSE DETERMINISTIC)

RECURSIVE LeafPathsFrom(_, _, _)
\* the paths of the primitive-typed fields of a field map, in field order
LeafPathsFrom(entries, i, prefix) ==
    IF i > Len(entries) THEN <<>>
    ELSE LET path == prefix \o "." \o entries[i][1]
             here == IF entries[i][2].k = "obj"
                     THEN LeafPathsFrom(entries[i][2].e, 1, path)
                     ELSE <<path>>
         IN  here \o LeafPathsFrom(entries, i + 1, prefix)

RECURSIVE LeafPathsOf(_, _)
LeafPathsOf(array, i) ==
    IF i > Len(array) THEN <<>>
    ELSE LeafPathsFrom(Entries(array[i].e[1][2]), 1, array[i].e[1][1])
         \o LeafPathsOf(array, i + 1)

CountIn(seq, x) == Cardinality({i \in 1..Len(seq) : seq[i] = x})

\* C3: a successful generateCSFLESchema call calls getDEK exactly once per
\* leaf field, with the path collection.field[.subfield...], and for no
\* other path.
C3_OneCallPerLeaf ==
    (gen.pc = "done" /\ Returned(gen.result))
    => LET leaves == LeafPathsOf(gen.jsonArray, 1)
       IN  /\ Len(CallPaths) = Len(leaves)
           /\ \A i \in 1..Len(CallPaths) : CountIn(leaves, CallPaths[i]) = CountIn(CallPaths, CallPaths[i])

\* C5: when some element of the input array does not have exactly one key,
\* the call fails with a ValidationError and has made no getDEK call.
C5_RejectedBeforeAnyResolution ==
    (/\ gen.pc = "done"
     /\ schemaFile.exists
     /\ IsArray(schemaFile.json)
     /\ \E i \in 1..Len(schemaFile.json.a) : Len(Keys(schemaFile.json.a[i])) # 1)
    => /\ Threw(gen.result)
       /\ gen.result.error.name = "ValidationError"
       /\ dekCalls = <<>>

\* C6: when a getDEK call fails, generateCSFLESchema throws an EncryptionError
\* whose message carries the path of that call, returns no schema, and makes
\* no further getDEK call.
C6_ResolverFailureAborts ==
    \A i \in 1..Len(dekCalls) :
        Threw(dekCalls[i].result)
        => /\ i = Len(dekCalls)
           /\ gen.pc = "done"
           /\ \A c \in Callers : dek[c].pc = "idle"
           /\ Threw(gen.result)
           /\ gen.result.error.name = "EncryptionError"
           /\ Mentions(gen.result.error.message, dekCalls[i].path)

C6_Witness ==
    /\ InputIs(<<Collection("db.coll", SiblingFields)>>)
    /\ Len(dekCalls) = 3
    /\ dekCalls[3].path = "db.coll.n.x"
    /\ dekCalls[3].result = Throw(CollaboratorError("connect"))
    /\ gen.pc = "done"

\* C7: a field whose tag is not a supported type makes generateCSFLESchema
\* fail with a ValidationError whose message names the field path, at every
\* nesting depth.
C7_UnknownTypeIsValidationError ==
    \A t \in UnsupportedTags \cap NestTags, d \in 1..MaxNest :
        (gen.pc = "done" /\ InputIs(<<Collection("db.coll", Nest(t, d))>>) /\ AllDEKReturned)
        => /\ Threw(gen.result)
           /\ gen.result.error.name = "ValidationError"
           /\ Mentions(gen.result.error.message, NestPath("db.coll", d))

\* C26: the type tag of a primitive field is normalized and checked before
\* getDEK is called for the field: for [{"db.coll": {"f": T}}] with T not a
\* supported type, no getDEK call is made.
C26_TagCheckedBeforeResolution ==
    \A t \in UnsupportedTags :
        InputIs(SingleField(t))
        => /\ dekCalls = <<>>
           /\ \A c \in Callers : dek[c].pc = "idle"

\* C27: every schema that generateCSFLESchema returns is accepted by
\* validateCSFLESchema.
C27_GeneratedSchemaValidates ==
    (gen.pc = "done" /\ Returned(gen.result))
    => validateCSFLESchema(gen.result.value, "root") = Ret(Bool(TRUE))

\* an encrypt leaf whose single key is the vault record named path, obtained
\* by a getDEK(path) call
IsLeafFor(node, path) ==
    /\ Has(node, "encrypt")
    /\ ~Has(node, "properties")
    /\ LET keyId == Get(Get(node, "encrypt"), "keyId")
       IN  /\ keyId.k = "arr"
           /\ Len(keyId.a) = 1
           /\ \E j \in 1..Len(vault) :
                 Binary(vault[j].id) = keyId.a[1] /\ vault[j].altName = path
           /\ \E j \in 1..Len(dekCalls) :
                 dekCalls[j] = [path |-> path, result |-> Ret(keyId.a[1])]

RECURSIVE Mirrors(_, _, _)
\* the expanded node out has the nesting of the field map fields, whose own
\* path is prefix
Mirrors(fields, out, prefix) ==
    /\ Get(out, "bsonType") = Str("object")
    /\ Get(out, "properties").k = "obj"
    /\ Keys(Get(out, "properties")) = Keys(fields)
    /\ \A i \in 1..Len(fields.e) :
          LET child == Get(out, "properties").e[i][2]
              path == prefix \o "." \o fields.e[i][1]
          IN  IF fields.e[i][2].k = "obj"
              THEN Mirrors(fields.e[i][2], child, path)
              ELSE IsLeafFor(child, path)

\* C9: the expanded tree mirrors the input nesting: a nested mapping becomes
\* {bsonType: "object", properties: ...}, a primitive field becomes an encrypt
\* leaf under the same parent, and the path passed to getDEK for a leaf is the
\* collection name and all field names down to the leaf joined by dots.
C9_NestingPreserved ==
    (gen.pc = "done" /\ Returned(gen.result))
    => \A i \in 1..Len(gen.jsonArray) :
          LET name == gen.jsonArray[i].e[1][1]
          IN  Mirrors(gen.jsonArray[i].e[1][2], Get(gen.result.value, name), name)

C9_Witness ==
    /\ gen.pc = "done"
    /\ Returned(gen.result)
    /\ InputIs(<<Collection("db.coll", Nest("string", 2))>>)
    /\ CallPaths[Len(CallPaths)] = "db.coll.a.b"

-----------------------------------------------------------------------------
(* Properties of the service object (SpecService) *)

\* the service was constructed with a usable key-vault configuration and a
\* provider of a type buildEncryptionConfig knows
WellConfigured ==
    /\ svc.keyVault = Obj(<< <<"database", Str("encryption")>>, <<"collection", Str("__keyVault")>> >>)
    /\ svc.kmsProvider.k = "obj"
    /\ Get(svc.kmsProvider, "type").s \in {"local", "aws", "azure", "gcp"}

\* C20: initializeWithSchema called with a non-empty schema that fails
\* validateCSFLESchema throws a ValidationError, not a ConfigurationError or
\* an error of any other kind.
C20_InvalidSchemaIsValidationError ==
    \A i \in 1..Len(svcLog) :
        (/\ WellConfigured
         /\ svcLog[i].op = "initializeWithSchema"
         /\ svcLog[i].arg \in RejectedSchemas)
        => /\ Threw(svcLog[i].result)
           /\ svcLog[i].result.error.name = "ValidationError"

-----------------------------------------------------------------------------
(* Properties of the service object with a schema file (SpecFile) *)

\* some getDEK call of the schema generation failed
KeyResolutionFailed == \E j \in 1..Len(dekCalls) : Threw(dekCalls[j].result)

\* C21: when a key lookup or creation fails while initializeWithFile
\* generates the schema, the error that reaches the caller of
\* initializeWithFile is an EncryptionError.
C21_KeyFailureIsEncryptionError ==
    \A i \in 1..Len(svcLog) :
        (/\ svcLog[i].op = "initializeWithFile"
         /\ i = Len(svcLog)
         /\ svcLog[i].result # Pending
         /\ KeyResolutionFailed)
        => /\ Threw(svcLog[i].result)
           /\ svcLog[i].result.error.name = "EncryptionError"

InitOps == {"initializeWithSchema", "initializeWithFile"}

\* an initialization call logged before position i has completed without
\* throwing
InitializedBefore(i) ==
    \E j \in 1..(i - 1) : svcLog[j].op \in InitOps /\ Returned(svcLog[j].result)

\* the schema a client was configured with
SchemaOfClient(client) == Get(Get(Get(client, "options"), "autoEncryption"), "schemaMap")

\* C22: getMongoClient returns a client only if an earlier initializeWithSchema
\* or initializeWithFile call on the service completed without throwing, and
\* then the client's schema passes validateCSFLESchema; in every other state
\* it throws ConfigurationError.
C22_ClientOnlyAfterInitialization ==
    /\ \A i \in 1..Len(svcLog) :
          svcLog[i].op = "getMongoClient"
          => /\ Returned(svcLog[i].result)
                => /\ InitializedBefore(i)
                   /\ validateCSFLESchema(SchemaOfClient(svcLog[i].result.value), "root")
                         = Ret(Bool(TRUE))
             /\ ~InitializedBefore(i)
                => /\ Threw(svcLog[i].result)
                   /\ svcLog[i].result.error.name = "ConfigurationError"
    /\ IF InitializedBefore(Len(svcLog) + 1)
       THEN Returned(getMongoClient(svc))
       ELSE /\ Threw(getMongoClient(svc))
            /\ getMongoClient(svc).error.name = "ConfigurationError"

C22_Witness ==
    /\ Len(svcLog) = 2
    /\ svcLog[1].op = "initializeWithFile"
    /\ Returned(svcLog[1].result)
    /\ svcLog[1].after # svcLog[1].before
    /\ svcLog[2].op = "getMongoClient"
    /\ Returned(svcLog[2].result)

\* the last logged call is an initialization that has just failed
InitFailsInStep ==
    /\ Len(svcLog') = Len(svcLog) + 1
    /\ svcLog'[Len(svcLog')].op \in InitOps
    /\ Threw(svcLog'[Len(svcLog')].result)

\* C28: an initializeWithSchema or initializeWithFile call that throws leaves
\* the observable state as it was: getSchema and getMongoClient behave after
\* the failed call as they did before it.
C28_FailedInitLeavesStateUnchanged ==
    [][InitFailsInStep
       => /\ getSchema(svc') = getSchema(svc)
          /\ getMongoClient(svc') = getMongoClient(svc)]_vars

\* the key records of after that before does not hold
AddedKeys(before, after) == (Len(before) + 1)..Len(after)

\* C29: keys created by a generateCSFLESchema run that failed part-way stay in
\* the vault and a sequential retry reuses them: the vault never holds two
\* keys with the same alternate name, and each run creates keys only for
\* paths that had none when it started.
C29_RetryReusesKeys ==
    /\ \A i \in 1..Len(vault), j \in 1..Len(vault) :
          vault[i].altName = vault[j].altName => i = j
    /\ \A i \in 1..Len(svcLog) :
          (svcLog[i].op = "initializeWithFile" /\ svcLog[i].result # Pending)
          => /\ SubSeq(svcLog[i].after, 1, Len(svcLog[i].before)) = svcLog[i].before
             /\ \A k \in AddedKeys(svcLog[i].before, svcLog[i].after) :
                   Named(svcLog[i].before, svcLog[i].after[k].altName) = {}

C29_Witness ==
    /\ Len(svcLog) = 2
    /\ svcLog[1].op = "initializeWithFile"
    /\ svcLog[2].op = "initializeWithFile"
    /\ svcLog[1].arg = Arr(<<Collection("app.users", EndToEndFields)>>)
    /\ svcLog[2].arg = svcLog[1].arg
    /\ svcLog[1].before = <<>>
    /\ Threw(svcLog[1].result)
    /\ Len(svcLog[1].after) = 2
    /\ svcLog[2].before = svcLog[1].after
    /\ Returned(svcLog[2].result)
    /\ Len(svcLog[2].after) = 4

RECURSIVE Says(_, _)
\* the message text is, or interpolates, a message of template tmpl
Says(msg, tmpl) ==
    /\ msg.tmpl # "none"
    /\ \/ msg.tmpl = tmpl
       \/ Says(msg.cause, tmpl)

\* C30: every provider type for which getDEK can create keys is accepted by
\* buildEncryptionConfig: an initializeWithFile call that has created keys
\* does not then fail because the provider is unsupported.
C30_KeyCreatingProviderIsConfigurable ==
    \A i \in 1..Len(svcLog) :
        (/\ svcLog[i].op = "initializeWithFile"
         /\ svcLog[i].result # Pending
         /\ Len(svcLog[i].after) > Len(svcLog[i].before))
        => ~(/\ Threw(svcLog[i].result)
             /\ Says(svcLog[i].result.error.message, "UnsupportedKMSProvider"))

-----------------------------------------------------------------------------
(* Properties of the resolver under concurrency (SpecRace) *)

\* caller c's createDataKey succeeds in this step
Creates(c) ==
    /\ dek[c].pc = "createDataKey"
    /\ dek'[c].pc = "close"
    /\ Returned(dek'[c].pending)

\* C23: when two getDEK calls for the same path have both completed their
\* lookup without finding a key, each of them creates a key: nothing checks
\* the name again, so the second creation adds a second record with the same
\* alternate name and both callers get distinct keys.
C23_RaceCreatesDuplicateKeys ==
    [][\A c \in Callers, d \in Callers :
          (/\ c # d
           /\ dek[d].arg = dek[c].arg
           /\ dek[d].pc \in {"createDataKey", "close", "done"}
           /\ Creates(c))
          => /\ Len(vault') = Len(vault) + 1
             /\ vault'[Len(vault')].altName = dek[c].arg
             /\ dek'[c].pending.value = Binary(vault'[Len(vault')].id)
             /\ \A i \in 1..Len(vault) :
                   vault'[i] = vault[i] /\ vault[i].id # vault'[Len(vault')].id]_vars

C23_Witness ==
    /\ Len(hist) = 2
    /\ hist[1].arg = "app.users.ssn"
    /\ hist[2].arg = "app.users.ssn"
    /\ Named(hist[1].before, "app.users.ssn") = {}
    /\ Named(hist[2].before, "app.users.ssn") = {}
    /\ Returned(hist[1].result)
    /\ Returned(hist[2].result)
    /\ hist[1].result.value # hist[2].result.value
    /\ Cardinality(Named(vault, "app.users.ssn")) = 2

\* C24: getDEK calls are fault-isolated from each other: no lookup and no key
\* creation of one call is attempted on a connection that another call has
\* closed.
C24_NoUseOfClosedConnection ==
    \A c \in Callers : dek[c].pc \in {"findOne", "createDataKey"} => clientOpen

====
